---- MODULE Spec2Model ----
(***************************************************************************)
(* Conway's Game of Life engine of laundrevity/conway (src/src/lib.rs,     *)
(* with src/src/main.rs as the fixed-size variant of the same logic).      *)
(*                                                                         *)
(* One host frame is one call of App::update.  The call runs its widgets   *)
(* in program order; pc is the position inside the call:                   *)
(*   draw_grid -> play -> pause -> clear -> slider -> tick -> draw_grid    *)
(* pc = "panic" is the abort of an out-of-bounds matrix access.            *)
(* main is the engine of src/src/main.rs, run next to the one of lib.rs    *)
(* by SpecPair and left alone by the other specifications.                 *)
(* Time is counted in tenths of a second (0.5 s = 5), pointer positions    *)
(* in whole pixels relative to the painter's top-left corner.              *)
(***************************************************************************)
EXTENDS Integers, FiniteSets, Sequences, TLC

VARIABLES grid_length, grid, is_playing, last_update, update_frequency,
          clock, pc, ev, frames, main

vars == <<grid_length, grid, is_playing, last_update, update_frequency,
          clock, pc, ev, frames, main>>

(* ------------------------------ bounds --------------------------------- *)
\* playable size used by the frame machine (the program uses 32, resp. 16)
N == 2
\* largest playable size on which the generation rule alone is exercised
RuleN == 3
\* generations applied in a row when the rule alone is exercised
MaxGen == 2
\* number of host frames explored
MaxFrames == 3
\* last clock reading explored, in tenths of a second
MaxTime == 5

(* ------------------------- program constants --------------------------- *)
cell_size == 20
InitFrequency == 5
MinFrequency == 1
MaxFrequency == 20
\* side of the Moore neighbourhood block scanned by count_alive_neighbors
Span == 3

(* ------------------------------ helpers -------------------------------- *)
Idx(n) == 0 .. (n + 1)

\* positions of the alive cells of g
Alive(g) == {c \in (DOMAIN g) \X (DOMAIN g) : g[c[1]][c[2]]}

\* vec![vec![false; n + 2]; n + 2]
DeadGrid(n) == [x \in Idx(n) |-> [y \in Idx(n) |-> FALSE]]

\* f32 -> usize cast: saturating, a negative value becomes 0
AsUsize(v) == IF v < 0 THEN 0 ELSE v

\* ((pos - origin) / cell_size).floor() as usize
CellIndex(p) == AsUsize(p \div cell_size)

\* variant: the bounds test lets the index n through
InRangeInclusive(n, x, y) == x <= n /\ y <= n

\* the bounds test guarding the toggle
InRange(n, x, y) == x < n /\ y < n

\* variant: the click sets the cell alive instead of flipping it
ToggleSetsAlive(g, x, y) == [g EXCEPT ![x][y] = TRUE]

\* self.grid[x][y] = !self.grid[x][y]
Toggle(g, x, y) == [g EXCEPT ![x][y] = ~g[x][y]]

\* variant: the bounds test has no lower bound
NeighbourBelowUpperOnly(n, ni, nj) == ni < n + 2 /\ nj < n + 2

\* ni >= 0 && ni < grid_length + 2 && nj >= 0 && nj < grid_length + 2
NeighbourInBounds(n, ni, nj) == ni >= 0 /\ ni < n + 2 /\ nj >= 0 /\ nj < n + 2

\* one pass of the loop body for offsets (i, j): 1 when the neighbour
\* (ni, nj) is in bounds and alive, 0 for the cell itself and otherwise
NeighbourAdds(g, n, i, j, ni, nj) ==
    IF i = 1 /\ j = 1 THEN 0
    ELSE IF NeighbourInBounds(n, ni, nj) /\ g[ni][nj] THEN 1 ELSE 0

\* the loop of count_alive_neighbors, k = 3*i + j running over 0..8
RECURSIVE CountFrom(_, _, _, _, _)
CountFrom(g, n, x, y, k) ==
    IF k >= Span * Span THEN 0
    ELSE NeighbourAdds(g, n, k \div Span, k % Span,
                       x + (k \div Span) - 1, y + (k % Span) - 1)
           + CountFrom(g, n, x, y, k + 1)

\* variant: neighbour indices wrap around to the opposite edge
RECURSIVE CountWrapFrom(_, _, _, _, _)
CountWrapFrom(g, n, x, y, k) ==
    IF k >= Span * Span THEN 0
    ELSE NeighbourAdds(g, n, k \div Span, k % Span,
                       (x + (k \div Span) - 1) % (n + 2),
                       (y + (k % Span) - 1) % (n + 2))
           + CountWrapFrom(g, n, x, y, k + 1)

count_alive_neighbors_wrap(g, n, x, y) == CountWrapFrom(g, n, x, y, 0)

count_alive_neighbors(g, n, x, y) == CountFrom(g, n, x, y, 0)

\* variant: a dead cell is born with 2 neighbours as well as with 3
NextCellBirthOnTwo(g, n, x, y) ==
    count_alive_neighbors(g, n, x, y) \in {2, 3}

\* the rule applied to one cell, counts taken on the old grid g
NextCell(g, n, x, y) ==
    IF g[x][y] THEN count_alive_neighbors(g, n, x, y) \in {2, 3}
    ELSE count_alive_neighbors(g, n, x, y) = 3

\* variant: the pass writes into the grid it is reading (no clone)
RECURSIVE InPlaceFrom(_, _, _)
InPlaceFrom(g, n, k) ==
    IF k >= (n + 2) * (n + 2) THEN g
    ELSE LET x == k \div (n + 2)
             y == k % (n + 2)
         IN  InPlaceFrom([g EXCEPT ![x][y] = NextCell(g, n, x, y)], n, k + 1)

update_game_state_in_place(g, n) == InPlaceFrom(g, n, 0)

\* new_grid = clone of g with every cell of 0..n+1 x 0..n+1 overwritten
update_game_state(g, n) ==
    [x \in DOMAIN g |-> [y \in DOMAIN g[x] |->
        IF x \in Idx(n) /\ y \in Idx(n) THEN NextCell(g, n, x, y) ELSE g[x][y]]]

\* variant: the cleared matrix is allocated without the border ring
clear_grid_no_border(n) == [x \in 0 .. (n - 1) |-> [y \in 0 .. (n - 1) |-> FALSE]]

clear_grid(n) == DeadGrid(n)

\* variant: the slider stores the requested value as it is
SliderNoClamp(v) == v

\* egui::Slider over 0.1..=2.0 stores the value clamped into the range
SliderClamp(v) == IF v < MinFrequency THEN MinFrequency
                  ELSE IF v > MaxFrequency THEN MaxFrequency ELSE v

\* variant: the step needs strictly more than the interval
StepDueStrict(playing, now, last, freq) == playing /\ (now - last) > freq

\* variant: the step is not gated by is_playing
StepDueUngated(playing, now, last, freq) == (now - last) >= freq

\* is_playing && (now - last_update) >= update_frequency
StepDue(playing, now, last, freq) == playing /\ (now - last) >= freq

(* --------------------- matrix indices the code uses -------------------- *)
\* g[x][y] is an element of the matrix; an index outside makes the access panic
InMatrix(g, x, y) == x \in DOMAIN g /\ y \in DOMAIN g[x]

\* self.grid[x][y] of the click, reached only behind the bounds test
ClickInMatrix(g, n, px, py) ==
    InRange(n, CellIndex(px), CellIndex(py)) => InMatrix(g, CellIndex(px), CellIndex(py))

\* self.grid[x][y] of the drawing loop, x and y in 1..grid_length+1 (exclusive)
RenderInMatrix(g, n) == \A x \in 1 .. n : \A y \in 1 .. n : InMatrix(g, x, y)

\* self.grid[ni][nj] of count_alive_neighbors(x, y), behind its bounds test
NeighboursInMatrix(g, n, x, y) ==
    \A i \in 0 .. (Span - 1) : \A j \in 0 .. (Span - 1) :
        \/ i = 1 /\ j = 1
        \/ ~NeighbourInBounds(n, x + i - 1, y + j - 1)
        \/ InMatrix(g, x + i - 1, y + j - 1)

\* every access of update_game_state: the cells of its double loop and the
\* neighbours read for each of them
StepInMatrix(g, n) ==
    \A x \in Idx(n) : \A y \in Idx(n) :
        InMatrix(g, x, y) /\ NeighboursInMatrix(g, n, x, y)

(* ------------------------------ inputs --------------------------------- *)
\* pointer offsets per axis: just outside the painter on either side, and
\* the first and last pixel of cells
PointerCoords(n) == {-1, 0, cell_size - 1, cell_size, n * cell_size - 1, n * cell_size}

\* slider requests, below / above the supported range included
SliderInputs == {0, 25}

\* hit is the cell a click of the running frame has toggled, with the value
\* the click gave it; <<>> when no click has toggled a cell
NoHit == <<>>

NoEvent == [w |-> "none", hit |-> NoHit]

(* ------------------- the engine of src/src/main.rs --------------------- *)
\* main.rs writes the sizes out: 16 playable cells a side, matrix side 18.
\* It is modelled at the playable size N the frame machine uses for lib.rs.
MainCells == N

MainSide == MainCells + 2

\* vec![vec![false; 18]; 18]
main_dead_grid == [x \in 0 .. (MainSide - 1) |-> [y \in 0 .. (MainSide - 1) |-> FALSE]]

\* GameOfLifeApp::new of main.rs; last_update is the Instant of construction
main_new ==
    [grid |-> main_dead_grid, is_playing |-> FALSE, last_update |-> 0,
     update_frequency |-> InitFrequency]

\* if x < 16 && y < 16
MainInRange(x, y) == x < MainCells /\ y < MainCells

\* the click block of draw_grid in main.rs
main_click(m, px, py) ==
    IF MainInRange(CellIndex(px), CellIndex(py))
    THEN [m EXCEPT !.grid = Toggle(@, CellIndex(px), CellIndex(py))]
    ELSE m

\* ni >= 0 && ni < 18 as isize && nj >= 0 && nj < 18 as isize
MainNeighbourInBounds(ni, nj) == ni >= 0 /\ ni < MainSide /\ nj >= 0 /\ nj < MainSide

RECURSIVE MainCountFrom(_, _, _, _)
MainCountFrom(g, x, y, k) ==
    IF k >= Span * Span THEN 0
    ELSE (IF k \div Span = 1 /\ k % Span = 1 THEN 0
          ELSE IF MainNeighbourInBounds(x + (k \div Span) - 1, y + (k % Span) - 1)
                  /\ g[x + (k \div Span) - 1][y + (k % Span) - 1]
               THEN 1 ELSE 0)
           + MainCountFrom(g, x, y, k + 1)

main_count_alive_neighbors(g, x, y) == MainCountFrom(g, x, y, 0)

\* update_game_state of main.rs: loops over 0..18 on both axes
main_update_game_state(g) ==
    [x \in DOMAIN g |-> [y \in DOMAIN g[x] |->
        IF x \in 0 .. (MainSide - 1) /\ y \in 0 .. (MainSide - 1)
        THEN IF g[x][y] THEN main_count_alive_neighbors(g, x, y) \in {2, 3}
             ELSE main_count_alive_neighbors(g, x, y) = 3
        ELSE g[x][y]]]

(* ------------------------------- Init ---------------------------------- *)
Init ==
    /\ grid_length = N
    /\ grid = DeadGrid(N)
    /\ is_playing = FALSE
    /\ clock = 0
    /\ last_update = 0
    /\ update_frequency = InitFrequency
    /\ pc = "draw_grid"
    /\ ev = NoEvent
    /\ frames = 0
    /\ main = main_new

(* ------------------------------ actions -------------------------------- *)
\* variant: the click is noted in draw_grid but its toggle is not applied
\* before the tick of the frame
DrawGridClickDeferred(px, py) ==
    /\ pc = "draw_grid"
    /\ frames < MaxFrames
    /\ ev' = [w |-> "click", px |-> px, py |-> py,
              hit |-> IF InRange(grid_length, CellIndex(px), CellIndex(py))
                      THEN <<CellIndex(px), CellIndex(py),
                             ~grid[CellIndex(px)][CellIndex(py)]>>
                      ELSE NoHit]
    /\ pc' = "play"
    /\ UNCHANGED <<main, grid_length, grid, is_playing, last_update, update_frequency,
                   clock, frames>>

\* draw_grid, response.clicked() with the pointer at offset (px, py)
DrawGridClick(px, py) ==
    /\ pc = "draw_grid"
    /\ frames < MaxFrames
    /\ ev' = [w |-> "click", px |-> px, py |-> py,
              hit |-> IF InRange(grid_length, CellIndex(px), CellIndex(py))
                      THEN <<CellIndex(px), CellIndex(py),
                             ~grid[CellIndex(px)][CellIndex(py)]>>
                      ELSE NoHit]
    /\ IF ClickInMatrix(grid, grid_length, px, py) /\ RenderInMatrix(grid, grid_length)
       THEN /\ LET x == CellIndex(px)
                   y == CellIndex(py)
               IN  grid' = IF InRange(grid_length, x, y) THEN Toggle(grid, x, y) ELSE grid
            /\ pc' = "play"
       ELSE /\ grid' = grid
            /\ pc' = "panic"
    /\ UNCHANGED <<main, grid_length, is_playing, last_update, update_frequency, clock, frames>>

\* draw_grid without a click
DrawGridIdle ==
    /\ pc = "draw_grid"
    /\ frames < MaxFrames
    /\ ev' = NoEvent
    /\ pc' = IF RenderInMatrix(grid, grid_length) THEN "play" ELSE "panic"
    /\ UNCHANGED <<main, grid_length, grid, is_playing, last_update, update_frequency, clock, frames>>

\* variant: Play also restarts the step timer at the last clock reading
PlayButtonRestartsTimer(clicked) ==
    /\ pc = "play"
    /\ is_playing' = IF clicked THEN TRUE ELSE is_playing
    /\ last_update' = IF clicked THEN clock ELSE last_update
    /\ ev' = IF clicked
             THEN [w |-> "play", was_playing |-> is_playing, hit |-> ev.hit]
             ELSE [w |-> "none", hit |-> ev.hit]
    /\ pc' = "pause"
    /\ UNCHANGED <<main, grid_length, grid, update_frequency, clock, frames>>

PlayButton(clicked) ==
    /\ pc = "play"
    /\ is_playing' = IF clicked THEN TRUE ELSE is_playing
    /\ ev' = IF clicked
             THEN [w |-> "play", was_playing |-> is_playing, hit |-> ev.hit]
             ELSE [w |-> "none", hit |-> ev.hit]
    /\ pc' = "pause"
    /\ UNCHANGED <<main, grid_length, grid, last_update, update_frequency, clock, frames>>

PauseButton(clicked) ==
    /\ pc = "pause"
    /\ is_playing' = IF clicked THEN FALSE ELSE is_playing
    /\ ev' = [w |-> IF clicked THEN "pause" ELSE "none", hit |-> ev.hit]
    /\ pc' = "clear"
    /\ UNCHANGED <<main, grid_length, grid, last_update, update_frequency, clock, frames>>

\* variant: Clear empties the grid but leaves the scheduler as it is
ClearButtonKeepsPlaying(clicked) ==
    /\ pc = "clear"
    /\ grid' = IF clicked THEN clear_grid(grid_length) ELSE grid
    /\ ev' = IF clicked
             THEN [w |-> "clear", was_playing |-> is_playing,
                   had_alive |-> Alive(grid) # {}, hit |-> ev.hit]
             ELSE [w |-> "none", hit |-> ev.hit]
    /\ pc' = "slider"
    /\ UNCHANGED <<main, grid_length, is_playing, last_update, update_frequency, clock, frames>>

ClearButton(clicked) ==
    /\ pc = "clear"
    /\ grid' = IF clicked THEN clear_grid(grid_length) ELSE grid
    /\ is_playing' = IF clicked THEN FALSE ELSE is_playing
    /\ ev' = IF clicked
             THEN [w |-> "clear", was_playing |-> is_playing,
                   had_alive |-> Alive(grid) # {}, hit |-> ev.hit]
             ELSE [w |-> "none", hit |-> ev.hit]
    /\ pc' = "slider"
    /\ UNCHANGED <<main, grid_length, last_update, update_frequency, clock, frames>>

\* the slider widget, moved to value v
SliderMove(v) ==
    /\ pc = "slider"
    /\ update_frequency' = SliderClamp(v)
    /\ ev' = [w |-> "slider", v |-> v, cleared |-> ev.w = "clear", hit |-> ev.hit]
    /\ pc' = "tick"
    /\ UNCHANGED <<main, grid_length, grid, is_playing, last_update, clock, frames>>

SliderIdle ==
    /\ pc = "slider"
    /\ ev' = [w |-> "none", cleared |-> ev.w = "clear", hit |-> ev.hit]
    /\ pc' = "tick"
    /\ UNCHANGED <<main, grid_length, grid, is_playing, last_update, update_frequency, clock, frames>>

\* variant: the tick stamps last_update in every frame, fired or not
TickStampsEveryFrame(ok, stepped) ==
    /\ pc = "tick"
    /\ \E now \in 0 .. MaxTime :
          /\ now >= clock
          /\ clock' = now
          /\ ev' = [w |-> "tick", now |-> now,
                    fired |-> StepDue(is_playing, now, last_update, update_frequency),
                    before |-> grid, since |-> last_update, cleared |-> ev.cleared]
          /\ grid' = IF StepDue(is_playing, now, last_update, update_frequency)
                     THEN stepped ELSE grid
          /\ last_update' = now
    /\ pc' = "draw_grid"
    /\ frames' = frames + 1
    /\ UNCHANGED <<main, grid_length, is_playing, update_frequency>>

\* variant: a fired tick moves last_update on by one interval only, so that
\* missed intervals are made up by the following ticks
TickCatchesUp(ok, stepped) ==
    /\ pc = "tick"
    /\ \E now \in 0 .. MaxTime :
          /\ now >= clock
          /\ clock' = now
          /\ ev' = [w |-> "tick", now |-> now,
                    fired |-> StepDue(is_playing, now, last_update, update_frequency),
                    before |-> grid, since |-> last_update, cleared |-> ev.cleared]
          /\ IF StepDue(is_playing, now, last_update, update_frequency)
             THEN grid' = stepped /\ last_update' = last_update + update_frequency
             ELSE UNCHANGED <<grid, last_update>>
    /\ pc' = "draw_grid"
    /\ frames' = frames + 1
    /\ UNCHANGED <<main, grid_length, is_playing, update_frequency>>

\* let now = get_current_time(); the gated generation step, for every clock
\* reading now that is not before the last one. stepped is the grid
\* update_game_state returns for the current grid and ok tells whether all
\* its matrix accesses are in bounds. ev keeps the reading, whether the
\* step fired, the grid and last_update the tick found, and whether Clear
\* was pressed earlier in the frame
TickAt(ok, stepped) ==
    /\ pc = "tick"
    /\ \E now \in 0 .. MaxTime :
          /\ now >= clock
          /\ clock' = now
          /\ IF StepDue(is_playing, now, last_update, update_frequency)
             THEN /\ ev' = [w |-> "tick", now |-> now, fired |-> TRUE,
                            before |-> grid, since |-> last_update,
                            cleared |-> ev.cleared]
                  /\ IF ok
                     THEN /\ grid' = stepped
                          /\ last_update' = now
                          /\ pc' = "draw_grid"
                     ELSE /\ UNCHANGED <<grid, last_update>>
                          /\ pc' = "panic"
             ELSE /\ ev' = [w |-> "tick", now |-> now, fired |-> FALSE,
                            before |-> grid, since |-> last_update,
                            cleared |-> ev.cleared]
                  /\ UNCHANGED <<grid, last_update>>
                  /\ pc' = "draw_grid"
    /\ frames' = frames + 1
    /\ UNCHANGED <<main, grid_length, is_playing, update_frequency>>

\* the tick of one frame
Tick ==
    TickAt(StepInMatrix(grid, grid_length), update_game_state(grid, grid_length))

Next ==
    \/ \E px \in PointerCoords(grid_length), py \in PointerCoords(grid_length) :
          DrawGridClick(px, py)
    \/ DrawGridIdle
    \/ \E c \in BOOLEAN : PlayButton(c)
    \/ \E c \in BOOLEAN : PauseButton(c)
    \/ \E c \in BOOLEAN : ClearButton(c)
    \/ \E v \in SliderInputs : SliderMove(v)
    \/ SliderIdle
    \/ Tick

Spec == Init /\ [][Next]_vars

(* ---------------- the generation rule on its own ----------------------- *)
\* the grid of size n whose alive cells are the cells of S moved by (ox, oy)
GridOf(n, S, ox, oy) ==
    [x \in Idx(n) |-> [y \in Idx(n) |-> <<x - ox, y - oy>> \in S]]

\* every pattern confined to one Span x Span block, the block anywhere in
\* the matrix (corners and edges included)
BlockGrids(n) ==
    { GridOf(n, S, ox, oy) :
        S \in SUBSET ((0 .. Span - 1) \X (0 .. Span - 1)),
        ox \in 0 .. (n + 2 - Span), oy \in 0 .. (n + 2 - Span) }

InitRule ==
    /\ grid_length \in 1 .. RuleN
    /\ grid \in BlockGrids(grid_length)
    /\ is_playing = TRUE
    /\ clock = 0
    /\ last_update = 0
    /\ update_frequency = InitFrequency
    /\ pc = "rule"
    /\ ev = NoEvent
    /\ frames = 0
    /\ main = main_new

\* one call of update_game_state; ev keeps the grid it read, the grid the
\* run started from and the neighbour counts it used
RuleStep ==
    /\ pc = "rule"
    /\ frames < MaxGen
    /\ grid' = update_game_state(grid, grid_length)
    /\ ev' = [w |-> "step", before |-> grid,
              start |-> IF ev.w = "step" THEN ev.start ELSE grid,
              counts |-> [x \in Idx(grid_length) |-> [y \in Idx(grid_length) |->
                            count_alive_neighbors(grid, grid_length, x, y)]]]
    /\ frames' = frames + 1
    /\ UNCHANGED <<main, grid_length, is_playing, last_update, update_frequency, clock, pc>>

NextRule == RuleStep

SpecRule == InitRule /\ [][NextRule]_vars

(* ------------- lib.rs and main.rs run on the same frames --------------- *)
\* In SpecPair clock readings and last_update are whole nanoseconds, the
\* resolution of Instant; update_frequency stays the slider value in tenths
\* of a second, held by both engines as an f32.

\* width of the f32 significand
F32Digits == 24

\* decimal digits of one second counted in nanoseconds
NanoDigits == 9

\* the f32 nearest to k/10 is F32Mantissa(k) / 2^F32Exp(k)
RECURSIVE F32ExpFrom(_, _)
F32ExpFrom(k, e) ==
    IF k * 2^e >= 10 * 2^(F32Digits - 1) THEN e ELSE F32ExpFrom(k, e + 1)

F32Exp(k) == F32ExpFrom(k, 0)

F32Mantissa(k) == (k * 2^F32Exp(k) + 5) \div 10

\* w + r/d multiplied by 5, t times over, as whole part and remainder
RECURSIVE TimesFive(_, _, _, _)
TimesFive(w, r, d, t) ==
    IF t = 0 THEN <<w, r, d>>
    ELSE TimesFive(5 * w + (5 * r) \div d, (5 * r) % d, d, t - 1)

\* that f32 in nanoseconds: <<whole, r, d>> stands for whole + r/d
\* (10^9 / 2^e = 5^9 / 2^(e-9))
F32Nanos(k) ==
    TimesFive(F32Mantissa(k) \div 2^(F32Exp(k) - NanoDigits),
              F32Mantissa(k) % 2^(F32Exp(k) - NanoDigits),
              2^(F32Exp(k) - NanoDigits), NanoDigits)

\* lib.rs: (now - last_update) >= update_frequency as f64. The cast is
\* exact, so a whole number of nanoseconds passes the test iff it is not
\* below the f32 value itself
LibThreshold(k) == F32Nanos(k)[1] + (IF F32Nanos(k)[2] > 0 THEN 1 ELSE 0)

\* main.rs: Duration::from_secs_f32(update_frequency), the f32 rounded to
\* the nearest whole nanosecond
MainThreshold(k) ==
    F32Nanos(k)[1] + (IF 2 * F32Nanos(k)[2] >= F32Nanos(k)[3] THEN 1 ELSE 0)

LibStepDue(playing, now, last, freq) == playing /\ (now - last) >= LibThreshold(freq)

\* now.duration_since(last): zero when now is earlier
DurationSince(now, last) == IF now >= last THEN now - last ELSE 0

MainStepDue(playing, now, last, freq) ==
    playing /\ DurationSince(now, last) >= MainThreshold(freq)

\* clock readings: construction, and one nanosecond before, at and after
\* the shortest and the initial interval
PairReadings ==
    {0} \cup {MainThreshold(k) + d : k \in {MinFrequency, InitFrequency}, d \in {-1, 0, 1}}

\* draw_grid of both engines, with a click at (px, py) or none
PairDrawGrid(clicked, px, py) ==
    /\ pc = "draw_grid"
    /\ frames < MaxFrames
    /\ grid' = IF clicked /\ InRange(grid_length, CellIndex(px), CellIndex(py))
               THEN Toggle(grid, CellIndex(px), CellIndex(py)) ELSE grid
    /\ main' = IF clicked THEN main_click(main, px, py) ELSE main
    /\ ev' = IF clicked THEN [w |-> "click", px |-> px, py |-> py] ELSE [w |-> "none"]
    /\ pc' = "buttons"
    /\ UNCHANGED <<grid_length, is_playing, last_update, update_frequency, clock, frames>>

\* the Play, Pause and Clear buttons of both engines, in program order
PairButtons(play, pause, clear) ==
    /\ pc = "buttons"
    /\ is_playing' = IF clear \/ pause THEN FALSE ELSE IF play THEN TRUE ELSE is_playing
    /\ grid' = IF clear THEN clear_grid(grid_length) ELSE grid
    /\ main' = [main EXCEPT
                  !.is_playing = IF clear \/ pause THEN FALSE ELSE IF play THEN TRUE ELSE @,
                  !.grid = IF clear THEN main_dead_grid ELSE @]
    /\ ev' = [w |-> "buttons", play |-> play, pause |-> pause, clear |-> clear]
    /\ pc' = "slider"
    /\ UNCHANGED <<grid_length, last_update, update_frequency, clock, frames>>

\* the slider of both engines, moved to v or left alone
PairSlider(moved, v) ==
    /\ pc = "slider"
    /\ update_frequency' = IF moved THEN SliderClamp(v) ELSE update_frequency
    /\ main' = [main EXCEPT !.update_frequency = IF moved THEN SliderClamp(v) ELSE @]
    /\ ev' = [w |-> IF moved THEN "slider" ELSE "none"]
    /\ pc' = "tick"
    /\ UNCHANGED <<grid_length, grid, is_playing, last_update, clock, frames>>

\* the tick of both engines on the same clock reading; stepped and
\* main_stepped are the grids the two update_game_state return
PairTickAt(stepped, main_stepped) ==
    /\ pc = "tick"
    /\ \E now \in PairReadings :
          /\ now >= clock
          /\ clock' = now
          /\ IF LibStepDue(is_playing, now, last_update, update_frequency)
             THEN grid' = stepped /\ last_update' = now
             ELSE UNCHANGED <<grid, last_update>>
          /\ main' = IF MainStepDue(main.is_playing, now, main.last_update,
                                    main.update_frequency)
                     THEN [main EXCEPT !.grid = main_stepped, !.last_update = now]
                     ELSE main
          /\ ev' = [w |-> "tick", now |-> now,
                    fired |-> LibStepDue(is_playing, now, last_update, update_frequency),
                    main_fired |-> MainStepDue(main.is_playing, now, main.last_update,
                                               main.update_frequency)]
    /\ pc' = "draw_grid"
    /\ frames' = frames + 1
    /\ UNCHANGED <<grid_length, is_playing, update_frequency>>

PairTick ==
    PairTickAt(update_game_state(grid, grid_length), main_update_game_state(main.grid))

NextPair ==
    \/ \E px \in PointerCoords(grid_length), py \in PointerCoords(grid_length) :
          PairDrawGrid(TRUE, px, py)
    \/ PairDrawGrid(FALSE, 0, 0)
    \/ \E play \in BOOLEAN, pause \in BOOLEAN, clear \in BOOLEAN :
          PairButtons(play, pause, clear)
    \/ \E v \in SliderInputs : PairSlider(TRUE, v)
    \/ PairSlider(FALSE, 0)
    \/ PairTick

SpecPair == Init /\ [][NextPair]_vars

(* ------------------- reference notions for the claims ----------------- *)
\* the Moore neighbours of (x, y) that lie inside the matrix
Moore(n, x, y) ==
    {c \in ({x - 1, x, x + 1} \cap Idx(n)) \X ({y - 1, y, y + 1} \cap Idx(n)) :
        c # <<x, y>>}

MooreAlive(g, n, x, y) == {c \in Moore(n, x, y) : g[c[1]][c[2]]}

\* Conway's rule for one cell, read on the grid g
RuleOf(g, n, x, y) ==
    LET k == Cardinality(MooreAlive(g, n, x, y))
    IN  \/ g[x][y] /\ (k = 2 \/ k = 3)
        \/ ~g[x][y] /\ k = 3

ExpectedStep(g, n) == [x \in Idx(n) |-> [y \in Idx(n) |-> RuleOf(g, n, x, y)]]

IsSquare(g, n) == DOMAIN g = Idx(n) /\ \A x \in Idx(n) : DOMAIN g[x] = Idx(n)

OnRim(n, v) == v = 0 \/ v = n + 1

\* floor((pointer - origin) / cell_size), before any cast
FloorIdx(p) == p \div cell_size

Playable(n, p) == FloorIdx(p) >= 0 /\ FloorIdx(p) < n

\* three cells in a row along x / along y, centred on (cx, cy)
HorizontalRow(cx, cy) == {<<cx - 1, cy>>, <<cx, cy>>, <<cx + 1, cy>>}

VerticalColumn(cx, cy) == {<<cx, cy - 1>>, <<cx, cy>>, <<cx, cy + 1>>}

(* ------------------------------- claims -------------------------------- *)
\* C1: every generation step replaces the grid so that each matrix cell,
\* border cells included, is alive afterwards iff it was alive with 2 or 3
\* alive neighbours or dead with exactly 3, all counts taken on the grid as
\* it was before the step.
C1_StepAppliesRule ==
    [][ev'.w = "step" =>
          /\ IsSquare(grid', grid_length)
          /\ \A x \in Idx(grid_length), y \in Idx(grid_length) :
                grid'[x][y] = RuleOf(grid, grid_length, x, y)]_vars

\* a step has acted in which a dead border cell with 3 neighbours was born
\* and an alive cell with 4 or more neighbours died
C1_Witness ==
    /\ ev.w = "step"
    /\ \E y \in Idx(grid_length) :
          ~ev.before[0][y] /\ ev.counts[0][y] = 3 /\ grid[0][y]
    /\ \E x \in Idx(grid_length), y \in Idx(grid_length) :
          ev.before[x][y] /\ ev.counts[x][y] >= 4 /\ ~grid[x][y]

\* C2: the neighbour count of every matrix cell is the number of alive
\* cells among its Moore neighbours inside the matrix; nothing outside the
\* matrix counts and nothing wraps, so a corner counts at most 3 and another
\* rim cell at most 5, and the cell itself is not counted.
C2_NeighbourCount ==
    [][ev'.w = "step" =>
          \A x \in Idx(grid_length), y \in Idx(grid_length) :
             LET c == ev'.counts[x][y]
             IN  /\ c = Cardinality(MooreAlive(grid, grid_length, x, y))
                 /\ (OnRim(grid_length, x) /\ OnRim(grid_length, y)) => c <= 3
                 /\ (OnRim(grid_length, x) \/ OnRim(grid_length, y)) => c <= 5]_vars

\* counts were taken on a grid where corner (0,0), every cell around it and
\* the opposite corner are alive: the corner counts 3, its rim neighbour 5
C2_Witness ==
    /\ ev.w = "step"
    /\ ev.before[0][0]
    /\ ev.before[grid_length + 1][grid_length + 1]
    /\ ev.counts[0][0] = 3
    /\ ev.counts[0][1] = 5

C4_PausedNeverSteps ==
    [][(pc = "tick" /\ ~is_playing) =>
          (~ev'.fired /\ grid' = grid /\ last_update' = last_update)]_vars

\* a paused tick came a full interval after last_update on a grid that a
\* step would have changed, and did nothing
C4_Witness ==
    /\ ev.w = "tick" /\ ~ev.fired /\ ~is_playing
    /\ ev.now - last_update >= update_frequency
    /\ grid # ExpectedStep(grid, grid_length)

\* C5: the grid is always (n+2) rows of (n+2) cells and n keeps the value
\* it got at construction.
C5_GridShape ==
    /\ grid_length = N
    /\ IsSquare(grid, N)

\* a fired step has replaced the grid by one with newly born cells
C5_Witness ==
    /\ ev.w = "tick" /\ ev.fired
    /\ Cardinality(Alive(grid)) >= 4

\* C6: Clear leaves every matrix cell dead, border included, keeps the
\* matrix dimensions and n, and leaves the scheduler Paused.
C6_Clear ==
    [][(pc = "clear" /\ ev'.w = "clear") =>
          /\ IsSquare(grid', grid_length)
          /\ \A x \in Idx(grid_length), y \in Idx(grid_length) : ~grid'[x][y]
          /\ grid_length' = grid_length
          /\ ~is_playing']_vars

\* Clear was pressed while Playing on a grid with alive cells
C6_Witness ==
    /\ ev.w = "clear" /\ ev.was_playing /\ ev.had_alive
    /\ Alive(grid) = {} /\ ~is_playing

\* C7: a click on a playable index flips that one cell and leaves every
\* other cell, is_playing, the interval and last_update alone; a second
\* click there restores the grid, nothing but clicks, steps and Clear
\* changing the grid in between.
C7_ClickFlipsOneCell ==
    [][/\ (pc = "draw_grid" /\ ev'.w = "click"
             /\ Playable(grid_length, ev'.px) /\ Playable(grid_length, ev'.py)) =>
            LET ix == FloorIdx(ev'.px)
                iy == FloorIdx(ev'.py)
            IN  /\ IsSquare(grid', grid_length)
                /\ grid'[ix][iy] = ~grid[ix][iy]
                /\ \A x \in Idx(grid_length), y \in Idx(grid_length) :
                      <<x, y>> # <<ix, iy>> => grid'[x][y] = grid[x][y]
                /\ UNCHANGED <<is_playing, update_frequency, last_update>>
                /\ Toggle(grid', ix, iy) = grid
       /\ (ev'.w \in {"none", "play", "pause", "slider"}
             \/ (ev'.w = "tick" /\ ~ev'.fired)) => grid' = grid]_vars

\* a click on a playable index has just switched off the only alive cell
C7_Witness ==
    /\ ev.w = "click"
    /\ Playable(grid_length, ev.px) /\ Playable(grid_length, ev.py)
    /\ frames >= 1
    /\ Alive(grid) = {}

\* C8: a click toggles only if floor(px / cell_size) and floor(py / cell_size)
\* are both non-negative and below n; every other click, negative offsets
\* and offsets at or beyond n * cell_size included, changes nothing.
C8_MappingAsClaimed ==
    [][(pc = "draw_grid" /\ ev'.w = "click") =>
          IF Playable(grid_length, ev'.px) /\ Playable(grid_length, ev'.py)
          THEN grid' = [grid EXCEPT ![FloorIdx(ev'.px)][FloorIdx(ev'.py)] = ~@]
          ELSE /\ grid' = grid
               /\ UNCHANGED <<main, grid_length, is_playing, last_update,
                              update_frequency, clock>>]_vars

\* C9: no click changes a border cell, a cell whose x or y is 0 or n+1.
\* Stated for the clicks that land inside the painter (offsets 0 up to
\* n * cell_size - 1), where the pointer mapping itself is not in question.
C9_BorderNotClickable ==
    [][(pc = "draw_grid" /\ ev'.w = "click"
          /\ Playable(grid_length, ev'.px) /\ Playable(grid_length, ev'.py)) =>
          \A x \in Idx(grid_length), y \in Idx(grid_length) :
             (OnRim(grid_length, x) \/ OnRim(grid_length, y)) =>
                grid'[x][y] = grid[x][y]]_vars

\* C10: the stored interval always lies in 0.1 s .. 2.0 s and is 0.5 s
\* until the slider is first shown.
C10_IntervalInRange ==
    /\ update_frequency >= 1 /\ update_frequency <= 20
    /\ (frames = 0 /\ pc \in {"draw_grid", "play", "pause", "clear", "slider"})
          => update_frequency = 5

\* the slider was asked for more than 2.0 s and 2.0 s was stored
C10_Witness ==
    /\ ev.w = "slider" /\ ev.v > 20
    /\ update_frequency = 20

\* C11: with clock readings that never go back, last_update never
\* decreases; it changes only in a tick that fires a step, and then to that
\* tick's now; a tick that does not fire, a click, Play, Pause, Clear and
\* the slider leave it alone.
C11_LastUpdateOnlyOnStep ==
    [][/\ last_update' >= last_update
       /\ last_update' # last_update =>
             (pc = "tick" /\ ev'.w = "tick" /\ ev'.fired /\ last_update' = ev'.now)
       /\ (pc = "tick" /\ ev'.fired) => last_update' = ev'.now
       /\ (pc = "tick" /\ ~ev'.fired) => last_update' = last_update
       /\ pc \in {"draw_grid", "play", "pause", "clear", "slider"} =>
             last_update' = last_update]_vars

\* a second step has fired: last_update moved from one tick's now to the
\* next one's
C11_Witness ==
    /\ ev.w = "tick" /\ ev.fired
    /\ ev.since > 0 /\ ev.since < ev.now
    /\ last_update = ev.now

\* C13: for n >= 3, on a grid with nothing else alive: a single alive cell
\* leaves the whole grid dead after one step; a horizontal row of three
\* whose centre is a playable cell off the matrix edge is, after one step,
\* exactly the vertical column of three through that centre and, after two
\* steps, exactly the original row.
C13_LoneCellAndBlinker ==
    (grid_length >= 3 /\ ev.w = "step") =>
        /\ (Cardinality(Alive(ev.start)) = 1 /\ frames = 1) => Alive(grid) = {}
        /\ \A cx \in 1 .. grid_length, cy \in 1 .. grid_length :
              Alive(ev.start) = HorizontalRow(cx, cy) =>
                 /\ frames = 1 => Alive(grid) = VerticalColumn(cx, cy)
                 /\ frames = 2 => grid = ev.start

\* two steps have been applied to a horizontal row: the second one read the
\* vertical column and gave the row back
C13_Witness ==
    /\ grid_length >= 3 /\ ev.w = "step" /\ frames = 2
    /\ Alive(ev.start) = HorizontalRow(2, 2)
    /\ Alive(ev.before) = VerticalColumn(2, 2)
    /\ grid = ev.start

\* C14: within one frame the click is handled before the tick: the toggle
\* is in the grid as soon as draw_grid has run, and when the frame's tick
\* fires (Playing, step due, Clear not pressed in between) the grid it
\* reads holds the toggled cell and the new grid is the generation step of
\* that grid.
C14_ClickBeforeTick ==
    [][/\ (pc = "draw_grid" /\ ev'.w = "click" /\ ev'.hit # NoHit) =>
             grid'[ev'.hit[1]][ev'.hit[2]] = ev'.hit[3]
       /\ (pc = "tick" /\ ev.hit # NoHit /\ ~ev.cleared /\ ev'.fired) =>
             /\ is_playing
             /\ grid[ev.hit[1]][ev.hit[2]] = ev.hit[3]
             /\ grid' = ExpectedStep(grid, grid_length)]_vars

\* in the first frame a click made (1, 1) the only alive cell and the tick
\* of that frame fired on that grid: the lone cell died
C14_Witness ==
    /\ ev.w = "tick" /\ ev.fired /\ frames = 1
    /\ Alive(ev.before) = {<<1, 1>>}
    /\ Alive(grid) = {}

\* C15: in a frame in which Clear is pressed the tick does not fire,
\* however long ago the last step was and whatever was clicked or pressed
\* before Clear in that frame: the frame ends with every cell dead, the
\* scheduler Paused and last_update as it was; Clear itself leaves
\* last_update alone.
C15_ClearFrame ==
    [][/\ (pc = "clear" /\ ev'.w = "clear") => last_update' = last_update
       /\ (pc = "tick" /\ ev.cleared) =>
             /\ ~ev'.fired
             /\ \A x \in Idx(grid_length), y \in Idx(grid_length) : ~grid'[x][y]
             /\ ~is_playing'
             /\ last_update' = last_update
             /\ frames' = frames + 1]_vars

\* after an earlier fired step, a frame with Clear pressed ended a full
\* interval or more after last_update without a step
C15_Witness ==
    /\ ev.w = "tick" /\ ev.cleared /\ ~ev.fired
    /\ ev.since > 0 /\ ev.now - ev.since >= update_frequency
    /\ last_update = ev.since
    /\ Alive(grid) = {} /\ ~is_playing

C17_PlayPauseOnlyFlag ==
    [][/\ pc \in {"play", "pause"} =>
             /\ UNCHANGED <<main, grid_length, grid, update_frequency, last_update>>
             /\ ev'.w = "play" => is_playing'
             /\ ev'.w = "pause" => ~is_playing'
             /\ ev'.w = "none" => is_playing' = is_playing
       /\ (pc = "tick" /\ is_playing) =>
             (ev'.fired <=> ev'.now - last_update >= update_frequency)]_vars

\* Play was pressed on a Paused engine whose last step fired in an earlier
\* frame, some time before the last clock reading; last_update still holds
\* that step's time
C17_Witness ==
    /\ ev.w = "play" /\ ~ev.was_playing /\ is_playing
    /\ last_update > 0 /\ clock > last_update
    /\ pc = "pause"

\* C18: a click that toggles uses the mapped index as the matrix index,
\* with no +1: a click inside the painter changes the cell at
\* (floor(px / cell_size), floor(py / cell_size)) and not its diagonal
\* neighbour, and whatever the pointer offset, a click changes no cell
\* outside [0, n) x [0, n); the cells with x = n or y = n, drawn as part of
\* [1, n] x [1, n], are never changed by a click.
C18_ClicksReachLowerBlockOnly ==
    [][(pc = "draw_grid" /\ ev'.w = "click") =>
          /\ \A x \in Idx(grid_length), y \in Idx(grid_length) :
                grid'[x][y] # grid[x][y] => (x < grid_length /\ y < grid_length)
          /\ \A x \in Idx(grid_length) :
                /\ grid'[x][grid_length] = grid[x][grid_length]
                /\ grid'[grid_length][x] = grid[grid_length][x]
          /\ (Playable(grid_length, ev'.px) /\ Playable(grid_length, ev'.py)) =>
                /\ grid'[FloorIdx(ev'.px)][FloorIdx(ev'.py)]
                      # grid[FloorIdx(ev'.px)][FloorIdx(ev'.py)]
                /\ grid'[FloorIdx(ev'.px) + 1][FloorIdx(ev'.py) + 1]
                      = grid[FloorIdx(ev'.px) + 1][FloorIdx(ev'.py) + 1]]_vars

\* clicks on the first and on the last pixel of the painter have made the
\* cells (0, 0) and (n-1, n-1) the only alive ones, the second just now
C18_Witness ==
    /\ ev.w = "click"
    /\ ev.px = grid_length * cell_size - 1 /\ ev.py = grid_length * cell_size - 1
    /\ Alive(grid) = {<<0, 0>>, <<grid_length - 1, grid_length - 1>>}

\* C20: no operation reads or writes the matrix outside [0, n+2) on either
\* axis. No frame aborts on a matrix access; in every state in which
\* draw_grid is about to run, the drawing loop and the toggle of a click at
\* any pointer offset, negative and beyond the painter included, stay inside
\* the matrix, and in every state in which the tick is about to run while
\* Playing so do all cells the generation step writes and all neighbours it
\* counts.
C20_AccessesInMatrix ==
    /\ pc # "panic"
    /\ pc = "draw_grid" =>
          /\ RenderInMatrix(grid, grid_length)
          /\ \A px \in PointerCoords(grid_length), py \in PointerCoords(grid_length) :
                ClickInMatrix(grid, grid_length, px, py)
    /\ (pc = "tick" /\ is_playing) => StepInMatrix(grid, grid_length)

\* a step has fired on a grid whose corner cell (0, 0), put there by a
\* click, was alive: its neighbour scan met the offsets -1 on both axes
C20_Witness ==
    /\ ev.w = "tick" /\ ev.fired
    /\ ev.before[0][0]
    /\ pc = "draw_grid"

\* C19: the engine of main.rs and the engine of lib.rs built with the same
\* playable size, started together and given the same clicks, button
\* presses, slider moves and clock readings frame by frame, hold the same
\* grid and the same is_playing after every step and fire their generation
\* steps in the same frames.
C19_VariantsAgree ==
    /\ main.grid = grid
    /\ main.is_playing = is_playing
    /\ main.update_frequency = update_frequency
    /\ ev.w = "tick" => (ev.main_fired <=> ev.fired)
====
